---------------------------- MODULE Spec2Model ----------------------------
(***************************************************************************)
(* sql2meili: one run of run_with_config_file.  The configuration is read, *)
(* a DatabaseConn and a MeilisearchConn are built, the database is         *)
(* reflected, the index and table lists are validated, and export_tables   *)
(* copies every configured table, page by page, to its index.              *)
(*                                                                         *)
(* The database and the search engine are the two collaborators.  Every   *)
(* query is sent without ORDER BY, so the order of its result is the       *)
(* engine's: a table is held as the sequence in which the engine currently *)
(* scans it, and the engine may change that order between two queries      *)
(* (Reorder).  Another client may insert rows while a table is exported    *)
(* (Insert).  Every call to a collaborator may raise, which ends the run:  *)
(* nothing in the module catches it.                                       *)
(***************************************************************************)
EXTENDS Integers, Sequences, FiniteSets, TLC

VARIABLES
    json_data,       \* the loaded configuration: [tables, indexes]
    max_chunk_size,  \* main(): 5000 or --chunk_size
    database,        \* live database: table name -> rows, in scan order
    meili_server,    \* live search engine: index uid -> set of documents
    tables,          \* DatabaseConn.tables
    indexes,         \* MeilisearchConn.indexes
    metadata,        \* DatabaseConn.metadata.tables (names), filled by reflect
    idx,             \* export_tables: position in enumerate(db_con.tables)
    total_size,      \* export_tables: result of the count query
    chunk,           \* export_tables: loop variable of range(chunks)
    values,          \* export_tables: the page just fetched
    pc,              \* position of the run
    error,           \* the exception that ended the run, "" if none
    error_names,     \* the names listed by a KeyError
    queries,         \* history: every query sent to a collaborator, in order
    uploads,         \* history: every call of upload_data_to_index, in order
    raised_in,       \* history: the step in which that exception was raised
    counts,          \* history: the result of every count query, in order
    inserted,        \* history: rows inserted by another client during export
    reordered        \* history: changes of scan order during export

vars == <<json_data, max_chunk_size, database, meili_server, tables, indexes,
          metadata, idx, total_size, chunk, values, pc, error, error_names,
          queries, uploads, raised_in, counts, inserted, reordered>>

\* the variables of the run's environment and its histories, by group
config == <<json_data, max_chunk_size>>

conns == <<tables, indexes, metadata>>

locals == <<idx, total_size, chunk, values>>

events == <<inserted, reordered>>

----------------------------------------------------------------------------
(* Bounds of the model *)

MaxTables == 2

MaxRows == 3

MaxChunk == 2

MaxReorders == 1

Names == {"A", "B"}

SeqsUpTo(S, n) == UNION {[1..k -> S] : k \in 0..n}

----------------------------------------------------------------------------
(* Helpers *)

Min(a, b) == IF a < b THEN a ELSE b

\* a division that rounds down, where the code rounds up
floor(a, b) == a \div b

\* math.ceil(a / b) for a >= 0, b >= 1
ceil(a, b) == (a + b - 1) \div b

\* range(n) as a set
range(n) == 0..(n - 1)

\* the rows s scanned from position k + 1 on, wrapping around
Rotate(s, k) == SubSeq(s, k + 1, Len(s)) \o SubSeq(s, 1, k)

\* a row of table t: its primary-key column and one more column
Row(t, k) == [id |-> k, src |-> t]

\* dict(row): column name -> value, every column
dict(row) == [c \in DOMAIN row |-> row[c]]

\* [dict(row) for row in result]
Documents(result) == [i \in 1..Len(result) |-> dict(result[i])]

\* table.select(): the whole table, in the engine's order
SelectAll(t) == database[t]

\* select(["*"]).select_from(table).offset(off).limit(lim)
SelectOffsetLimit(t, off, lim) ==
    SubSeq(database[t], off + 1, Min(off + lim, Len(database[t])))

\* select([func.count()]).select_from(table)
Count(t) == Len(database[t])

\* the primary-key columns of a reflected table, in declaration order
PrimaryKeyColumns(t) == <<"id">>

\* DatabaseConn.get_primary_key_name
get_primary_key_name(t) == PrimaryKeyColumns(t)[1]

\* Index.update_documents: replace documents with the same key, add the others
update_documents(docs, data, primary_key) ==
    LET new == {data[i] : i \in 1..Len(data)}
        keys == {d[primary_key] : d \in new}
    IN {d \in docs : d[primary_key] \notin keys} \cup new

\* the first diff tables, where the code takes the last diff
HeadOfTables(tabs, diff) == SubSeq(tabs, 1, diff)

\* the tables appended by validate_indexes: db_con.tables[len(tables) - diff:]
TailOfTables(tabs, diff) == SubSeq(tabs, Len(tabs) - diff + 1, Len(tabs))

\* filter(lambda n: n not in present, names)
NotPresent(names, present) ==
    LET Absent(n) == n \notin present IN SelectSeq(names, Absent)

\* the tables taken from the end of the list, where the code takes them from
\* its start
table_name_reversed == tables[Len(tables) - idx]

\* export_tables: table_name, meili_index of the current iteration
table_name == tables[idx + 1]

meili_index == indexes[idx + 1]

\* an empty table gets no page, where the code fetches and uploads it whole
single_page_nonempty == 0 < total_size /\ total_size < max_chunk_size

\* export_tables, line 190: the table is fetched whole, in one page
single_page == total_size < max_chunk_size

\* export_tables, line 197
chunks == ceil(total_size, max_chunk_size)

\* one index too many is let through, where the code rejects any excess
too_many_indexes_by_two(diff) == diff < -1

\* validate_indexes, line 121
too_many_indexes(diff) == diff < 0

\* some page of table t has been fetched in this run
Fetched(t) ==
    \E k \in 1..Len(queries) :
        /\ queries[k].kind \in {"select", "select_page"}
        /\ queries[k].table = t

\* an exception leaves the step; nothing catches it and the run ends
Fail(e) == /\ pc' = "failed"
           /\ error' = e
           /\ raised_in' = pc

NoFail == UNCHANGED <<error, error_names, raised_in>>

----------------------------------------------------------------------------
\* the state of a run before its first step
Start ==
    /\ tables = <<>>
    /\ indexes = <<>>
    /\ metadata = {}
    /\ idx = 0
    /\ total_size = 0
    /\ chunk = 0
    /\ values = <<>>
    /\ pc = "validate_json"
    /\ error = ""
    /\ error_names = <<>>
    /\ raised_in = ""
    /\ queries = <<>>
    /\ uploads = <<>>
    /\ counts = <<>>
    /\ inserted = 0
    /\ reordered = 0

\* a table of n rows, in the order of their keys
TableOf(t, n) == [k \in 1..n |-> Row(t, k)]

\* Any configuration over Names, any set of live tables and of live indexes;
\* every live table has two rows.
Init ==
    /\ json_data \in [tables : SeqsUpTo(Names, MaxTables),
                      indexes : SeqsUpTo(Names, MaxTables + 1)]
    /\ max_chunk_size \in 1..MaxChunk
    /\ \E present \in SUBSET Names :
          database = [t \in present |-> TableOf(t, 2)]
    /\ \E uids \in SUBSET Names : meili_server = [u \in uids |-> {}]
    /\ Start

\* Configurations that name each table's index after the table, every table and
\* index being live; the tables have any number of rows.  The tables differ in
\* nothing but their names, so the first configured table is taken to be "A".
InitExport ==
    /\ \E tabs \in SeqsUpTo(Names, MaxTables) :
          /\ tabs # <<>> => tabs[1] = "A"
          /\ json_data = [tables |-> tabs, indexes |-> tabs]
    /\ max_chunk_size \in 1..MaxChunk
    /\ \E n \in [Names -> 0..MaxRows] :
          database = [t \in Names |-> TableOf(t, n[t])]
    /\ meili_server = [u \in Names |-> {}]
    /\ Start

\* create_connection_from_dict, lines 152-154: validate_json (get_schema may
\* raise; a schema violation is only logged) and the two constructors
ValidateJson ==
    /\ pc = "validate_json"
    /\ \/ /\ Fail("ValueError")
          /\ UNCHANGED <<tables, indexes>>
       \/ /\ tables' = json_data.tables
          /\ indexes' = json_data.indexes
          /\ pc' = "create_engine"
          /\ UNCHANGED <<error, raised_in>>
    /\ UNCHANGED <<config, database, meili_server, metadata, locals,
                   error_names, queries, uploads, counts, events>>

\* DatabaseConn.create_engine: metadata.reflect
CreateEngine ==
    /\ pc = "create_engine"
    /\ queries' = Append(queries, [kind |-> "reflect"])
    /\ \/ /\ Fail("DatabaseError")
          /\ UNCHANGED metadata
       \/ /\ metadata' = DOMAIN database
          /\ pc' = "validate_indexes"
          /\ UNCHANGED <<error, raised_in>>
    /\ UNCHANGED <<config, database, meili_server, tables, indexes, locals,
                   error_names, uploads, counts, events>>

\* MeilisearchConn.validate_indexes; get_indexes is called once for every name
\* of the index list (it is inside the filter's lambda)
ValidateIndexes ==
    /\ pc = "validate_indexes"
    /\ LET diff == Len(tables) - Len(indexes) IN
       IF diff = 0
       THEN /\ pc' = "validate_tables"
            /\ NoFail
            /\ UNCHANGED <<indexes, queries>>
       ELSE IF too_many_indexes(diff)
       THEN /\ Fail("TooManyIndexes")
            /\ UNCHANGED <<indexes, error_names, queries>>
       ELSE /\ indexes' = IF diff > 0
                          THEN indexes \o TailOfTables(tables, diff)
                          ELSE indexes
            /\ \/ /\ \E n \in 1..Len(indexes') :
                        queries' = queries \o
                            [i \in 1..n |-> [kind |-> "get_indexes"]]
                  /\ Fail("MeiliSearchError")
                  /\ UNCHANGED error_names
               \/ /\ queries' = queries \o
                        [i \in 1..Len(indexes') |-> [kind |-> "get_indexes"]]
                  /\ LET indexes_not_present ==
                             NotPresent(indexes', DOMAIN meili_server) IN
                     IF Len(indexes_not_present) > 0
                     THEN /\ Fail("MissingIndexes")
                          /\ error_names' = indexes_not_present
                     ELSE /\ pc' = "validate_tables"
                          /\ NoFail
    /\ UNCHANGED <<config, database, meili_server, tables, metadata, locals,
                   uploads, counts, events>>

\* DatabaseConn.validate_tables
ValidateTables ==
    /\ pc = "validate_tables"
    /\ LET tables_not_present == NotPresent(tables, metadata) IN
       IF Len(tables_not_present) > 0
       THEN /\ Fail("MissingTables")
            /\ error_names' = tables_not_present
       ELSE /\ pc' = "export_tables"
            /\ NoFail
    /\ UNCHANGED <<config, database, meili_server, conns, locals, queries,
                   uploads, counts, events>>

\* export_tables, lines 183-189 and 196-198: the next table, its primary key,
\* its index and its count; a table of no chunk is finished at once
CountTable ==
    /\ pc = "export_tables"
    /\ idx < Len(tables)
    /\ UNCHANGED <<config, database, meili_server, conns, values, error_names,
                   uploads, events>>
    /\ queries' = Append(queries, [kind |-> "count", tab |-> idx,
                                   table |-> table_name])
    /\ \/ /\ Fail("DatabaseError")
          /\ UNCHANGED <<idx, total_size, chunk, counts>>
       \/ /\ total_size' = Count(table_name)
          /\ counts' = Append(counts, total_size')
          /\ chunk' = 0
          /\ IF single_page' \/ 0 \in range(chunks')
             THEN /\ pc' = "fetch"
                  /\ UNCHANGED idx
             ELSE /\ pc' = "export_tables"
                  /\ idx' = idx + 1
          /\ UNCHANGED <<error, raised_in>>

\* export_tables, lines 190-194 and 198-204: fetch one page
Fetch ==
    /\ pc = "fetch"
    /\ IF single_page
       THEN /\ queries' = Append(queries,
                   [kind |-> "select", tab |-> idx, table |-> table_name])
            /\ \/ /\ Fail("DatabaseError")
                  /\ UNCHANGED values
               \/ /\ values' = Documents(SelectAll(table_name))
                  /\ pc' = "upload"
                  /\ UNCHANGED <<error, raised_in>>
       ELSE /\ queries' = Append(queries,
                   [kind |-> "select_page", tab |-> idx,
                    table |-> table_name,
                    offset |-> chunk * max_chunk_size,
                    limit |-> max_chunk_size])
            /\ \/ /\ Fail("DatabaseError")
                  /\ UNCHANGED values
               \/ /\ values' = Documents(SelectOffsetLimit(table_name,
                                      chunk * max_chunk_size, max_chunk_size))
                  /\ pc' = "upload"
                  /\ UNCHANGED <<error, raised_in>>
    /\ UNCHANGED <<config, database, meili_server, conns, idx, total_size,
                   chunk, error_names, uploads, counts, events>>

\* export_tables, lines 195 and 205-206, with upload_data_to_index, and the
\* step to the next page or the next table.  An upload record holds the call's
\* arguments, and for the history the table's position and the page's number.
\* get_index raises for an index the search engine does not have.
Upload ==
    /\ pc = "upload"
    /\ uploads' = Append(uploads,
           [index |-> meili_index, data |-> values,
            primary_key |-> get_primary_key_name(table_name),
            tab |-> idx, chunk |-> chunk])
    /\ \/ /\ Fail("MeiliSearchError")
          /\ UNCHANGED <<meili_server, idx, chunk>>
       \/ /\ meili_index \in DOMAIN meili_server
          /\ meili_server' = [meili_server EXCEPT ![meili_index] =
                update_documents(@, values,
                                 get_primary_key_name(table_name))]
          /\ UNCHANGED <<error, raised_in>>
          /\ IF single_page
             THEN /\ idx' = idx + 1
                  /\ pc' = "export_tables"
                  /\ UNCHANGED chunk
             ELSE /\ chunk' = chunk + 1
                  /\ IF chunk + 1 \in range(chunks)
                     THEN /\ pc' = "fetch"
                          /\ UNCHANGED idx
                     ELSE /\ idx' = idx + 1
                          /\ pc' = "export_tables"
    /\ UNCHANGED <<config, database, conns, total_size, values, error_names,
                   queries, counts, events>>

\* export_tables returns; run_with_config_file logs the end of the run
Finish ==
    /\ pc = "export_tables"
    /\ idx = Len(tables)
    /\ pc' = "done"
    /\ UNCHANGED <<config, database, meili_server, conns, locals, error,
                   error_names, raised_in, queries, uploads, counts, events>>

\* Another database client inserts a row into the table being exported,
\* after its count query and before a fetch; a table holds at most MaxRows
\* rows.  (An insert at another moment is seen by the export as a table that
\* was larger from the start.)
Insert ==
    /\ pc = "fetch"
    /\ Len(database[table_name]) < MaxRows
    /\ database' = [database EXCEPT ![table_name] =
                        Append(@, Row(table_name, Len(@) + 1))]
    /\ inserted' = inserted + 1
    /\ UNCHANGED <<config, meili_server, conns, locals, pc, error,
                   error_names, raised_in, queries, uploads, counts,
                   reordered>>

\* The engine returns the rows of the table being exported in another order
\* from the next query on: no query of export_tables has an ORDER BY.  One
\* change of order moves the scan's first row to its end; MaxReorders changes
\* compose.  (Before the first fetch of a table a change of order is a
\* renaming of its rows, so the order changes between two fetches.)
Reorder ==
    /\ pc = "fetch"
    /\ reordered < MaxReorders
    /\ Fetched(table_name)
    /\ Len(database[table_name]) > 1
    /\ database' = [database EXCEPT ![table_name] = Rotate(@, 1)]
    /\ reordered' = reordered + 1
    /\ UNCHANGED <<config, meili_server, conns, locals, pc, error,
                   error_names, raised_in, queries, uploads, counts,
                   inserted>>

Next ==
    \/ ValidateJson
    \/ CreateEngine
    \/ ValidateIndexes
    \/ ValidateTables
    \/ CountTable
    \/ Fetch
    \/ Upload
    \/ Finish
    \/ Insert
    \/ Reorder

Spec == Init /\ [][Next]_vars

SpecExport == InitExport /\ [][Next]_vars

----------------------------------------------------------------------------
(* Vocabulary of the properties *)

\* the table list and the index list as configured
T == json_data.tables

I == json_data.indexes

live_uids == DOMAIN meili_server

live_tables == DOMAIN database

\* the index list as reconciliation should leave it: I, then the tables that
\* have no index of their own
Finalized ==
    IF Len(I) < Len(T) THEN I \o [k \in 1..(Len(T) - Len(I)) |-> T[Len(I) + k]]
    ELSE I

\* validate_indexes has been entered and has got past its count checks
IndexesFinalized ==
    /\ pc \notin {"validate_json", "create_engine", "validate_indexes"}
    /\ ~(pc = "failed" /\ raised_in \in {"validate_json", "create_engine"})

\* the calls of upload_data_to_index for the table at position p (from 0)
UploadsOf(p) == LET At(u) == u.tab = p IN SelectSeq(uploads, At)

IsFetch(q) == q.kind \in {"select", "select_page"}

\* every fetch query, and those for the table at position p
Fetches == SelectSeq(queries, IsFetch)

FetchesOf(p) == LET At(q) == IsFetch(q) /\ q.tab = p IN SelectSeq(queries, At)

\* the arguments of a call of upload_data_to_index
Call(u) == [index |-> u.index, data |-> u.data, primary_key |-> u.primary_key]

\* the documents of a page, as a set
DocsOf(data) == {data[i] : i \in 1..Len(data)}

\* the rows of a live table as documents
TableDocs(t) == {dict(database[t][i]) : i \in 1..Len(database[t])}

\* the number of pages of a table of n rows: one if n < c, else ceil(n / c)
Pages(n, c) ==
    IF n < c THEN 1 ELSE (n \div c) + (IF n % c = 0 THEN 0 ELSE 1)

\* the export of the table at position p is over
Exported(p) == idx > p

\* the last call of upload_data_to_index raised
LastUploadRaised == pc = "failed" /\ raised_in = "upload"

----------------------------------------------------------------------------
(* C1: for every configuration that is not rejected for having more indexes *)
(* than tables, equal lengths included, validate_indexes returns only if    *)
(* every name of the finalized index list is live in the search engine, and *)
(* its missing-indexes error lists all absent names.                        *)
C1_AbsentIndexesRejected ==
    /\ pc = "validate_tables" =>
          \A i \in 1..Len(indexes) : indexes[i] \in live_uids
    /\ error = "MissingIndexes" =>
          /\ error_names # <<>>
          /\ \A n \in Names :
                (\E i \in 1..Len(error_names) : error_names[i] = n)
                <=> (n \notin live_uids /\ \E i \in 1..Len(Finalized) :
                                               Finalized[i] = n)

\* a configuration that validation is to reject
BadConfiguration ==
    \/ Len(I) > Len(T)
    \/ \E i \in 1..Len(Finalized) : Finalized[i] \notin live_uids
    \/ \E i \in 1..Len(T) : T[i] \notin live_tables

(* C2: fail fast: a run whose configuration has more indexes than tables,   *)
(* or names an index that is not live, or a table that is not live, never   *)
(* calls upload_data_to_index and does not finish.                          *)
C2_FailFast == BadConfiguration => (uploads = <<>> /\ pc # "done")

(* C3, as claimed: upload_data_to_index is never called for a table whose   *)
(* row count is 0.                                                          *)
C3_NoUploadForEmptyTable ==
    \A k \in 1..Len(uploads) : counts[uploads[k].tab + 1] # 0

(* C3, amended: for a table whose row count is 0, upload_data_to_index is   *)
(* called exactly once, with the result of the unbounded select: an empty   *)
(* document list if no row was inserted meanwhile.                          *)
C3_OneEmptyUploadForEmptyTable ==
    \A p \in 0..(Len(counts) - 1) :
        counts[p + 1] = 0 =>
            LET ups == UploadsOf(p)
                qs == FetchesOf(p)
            IN /\ Len(ups) <= 1
               /\ Exported(p) => Len(ups) = 1
               /\ inserted = 0 => \A k \in 1..Len(ups) : ups[k].data = <<>>
               /\ \A k \in 1..Len(qs) : qs[k].kind = "select"

C3_Witness ==
    /\ pc = "done"
    /\ inserted = 0
    /\ \E p \in 0..(Len(counts) - 1) :
          /\ counts[p + 1] = 0
          /\ Len(UploadsOf(p)) = 1
          /\ UploadsOf(p)[1].data = <<>>

(* C4: the page plan of a table that is not modified during the run: a      *)
(* table of fewer rows than max_chunk_size is uploaded whole in one page;   *)
(* otherwise in ceil(total_size / max_chunk_size) pages, page c fetched     *)
(* with OFFSET c * max_chunk_size LIMIT max_chunk_size, each of             *)
(* max_chunk_size rows but the last, which has the remainder.               *)
C4_PagePlan ==
    inserted = 0 =>
    \A p \in 0..(Len(counts) - 1) :
        Exported(p) =>
            LET n == counts[p + 1]
                c == max_chunk_size
                ups == UploadsOf(p)
                qs == FetchesOf(p)
            IN /\ Len(ups) = Pages(n, c)
               /\ Len(qs) = Len(ups)
               /\ n < c =>
                     /\ qs[1].kind = "select"
                     /\ Len(ups[1].data) = n
                     /\ DocsOf(ups[1].data) = TableDocs(T[p + 1])
               /\ n >= c =>
                     \A j \in 0..(Len(ups) - 1) :
                        /\ qs[j + 1].kind = "select_page"
                        /\ qs[j + 1].offset = j * c
                        /\ qs[j + 1].limit = c
                        /\ ups[j + 1].chunk = j
                        /\ Len(ups[j + 1].data) =
                              IF j < Len(ups) - 1 \/ n % c = 0 THEN c
                              ELSE n % c

C4_Witness ==
    /\ pc = "done"
    /\ inserted = 0
    /\ max_chunk_size = 2
    /\ \E p \in 0..(Len(counts) - 1) :
          /\ counts[p + 1] = 3
          /\ Len(UploadsOf(p)) = 2
          /\ Len(UploadsOf(p)[1].data) = 2
          /\ Len(UploadsOf(p)[2].data) = 1
    /\ \E p \in 0..(Len(counts) - 1) :
          /\ counts[p + 1] = 1
          /\ Len(UploadsOf(p)) = 1

(* C5: with at least as many tables as indexes, the finalized index list is *)
(* the configured one followed by the tables beyond its length, as long as  *)
(* the table list, and every page of the table at position i goes to the    *)
(* index at position i; neither list is re-sorted.                          *)
C5_PositionalMapping ==
    (Len(T) >= Len(I) /\ IndexesFinalized) =>
        /\ tables = T
        /\ indexes = Finalized
        /\ Len(indexes) = Len(T)
        /\ \A i \in 1..Len(I) : indexes[i] = I[i]
        /\ \A i \in (Len(I) + 1)..Len(T) : indexes[i] = T[i]
        /\ \A k \in 1..Len(uploads) :
              LET u == uploads[k] IN
              /\ u.index = (IF u.tab < Len(I) THEN I ELSE T)[u.tab + 1]
              /\ \A d \in DocsOf(u.data) : d.src = T[u.tab + 1]

C5_Witness ==
    /\ pc = "done"
    /\ Len(I) = 1
    /\ Len(T) = 2
    /\ I[1] # T[1]
    /\ T[1] # T[2]
    /\ \E k \in 1..Len(uploads) :
          uploads[k].tab = 1 /\ uploads[k].index = T[2]
    /\ \E k \in 1..Len(uploads) :
          uploads[k].tab = 0 /\ uploads[k].index = I[1] /\ uploads[k].chunk = 1

(* C6, as claimed: with more indexes than tables reconciliation fails with  *)
(* the too-many-indexes error, both lists as configured, before any query   *)
(* against the database or the search engine.                               *)
C6_TooManyIndexesBeforeAnyQuery ==
    error = "TooManyIndexes" =>
        /\ tables = T
        /\ indexes = I
        /\ queries = <<>>
        /\ uploads = <<>>

(* C6, amended: with more indexes than tables validate_indexes fails with   *)
(* the too-many-indexes error, both lists as configured; the one query      *)
(* before the failure is the reflection of the database by create_engine:   *)
(* no index enumeration, count, fetch or upload precedes it.                *)
C6_TooManyIndexesAfterReflection ==
    Len(I) > Len(T) =>
        /\ pc \in {"validate_json", "create_engine", "validate_indexes",
                   "failed"}
        /\ uploads = <<>>
        /\ \A k \in 1..Len(queries) : queries[k].kind = "reflect"
        /\ (pc = "failed" /\ raised_in = "validate_indexes") =>
              /\ error = "TooManyIndexes"
              /\ tables = T
              /\ indexes = I
              /\ queries = <<[kind |-> "reflect"]>>

C6_Witness ==
    /\ error = "TooManyIndexes"
    /\ Len(I) > Len(T)
    /\ Len(T) > 0
    /\ queries = <<[kind |-> "reflect"]>>

(* C7: idempotence: two exports of the same table to the same index with    *)
(* the same chunk size, the table not being modified, make the same         *)
(* sequence of upload_data_to_index calls, whatever order the engine        *)
(* returns rows in.                                                         *)
C7_SameCallsTwice ==
    (pc = "done" /\ inserted = 0) =>
        \A p, q \in 0..(Len(T) - 1) :
            (T[p + 1] = T[q + 1] /\ indexes[p + 1] = indexes[q + 1]) =>
                /\ Len(UploadsOf(p)) = Len(UploadsOf(q))
                /\ \A k \in 1..Len(UploadsOf(p)) :
                      Call(UploadsOf(p)[k]) = Call(UploadsOf(q)[k])

(* C8: completeness: when a run finishes and no table was modified, every   *)
(* row of the table at position i was uploaded, with all its columns, to    *)
(* the index at position i under the table's primary key.                   *)
C8_EveryRowUploaded ==
    (pc = "done" /\ inserted = 0) =>
        \A p \in 0..(Len(T) - 1) :
            \A d \in TableDocs(T[p + 1]) :
                \E k \in 1..Len(uploads) :
                    /\ uploads[k].tab = p
                    /\ uploads[k].index = indexes[p + 1]
                    /\ uploads[k].primary_key = "id"
                    /\ d \in DocsOf(uploads[k].data)

\* the upload at place k of the history follows the one before it in the
\* order of the run: the next page of the same table, or the first page of
\* the next table after the last page of this one
FollowsInOrder(k) ==
    LET a == uploads[k - 1]
        b == uploads[k]
    IN \/ /\ b.tab = a.tab
          /\ b.chunk = a.chunk + 1
          /\ b.chunk < Pages(counts[a.tab + 1], max_chunk_size)
       \/ /\ b.tab = a.tab + 1
          /\ b.chunk = 0
          /\ a.chunk + 1 = Pages(counts[a.tab + 1], max_chunk_size)

\* the documents of the upload at place k are in its index
Stored(k) ==
    LET u == uploads[k] IN
    /\ u.index \in live_uids
    /\ \A d \in DocsOf(u.data) :
          \E e \in meili_server[u.index] :
              e[u.primary_key] = d[u.primary_key]

(* C9: uploads happen in configured table order and, within a table, in     *)
(* increasing page offset, each page uploaded before the next is fetched;   *)
(* the pages uploaded so far are a prefix of that order and stay in their   *)
(* indexes; once a count, a fetch or an upload has failed the run takes no  *)
(* further step.                                                            *)
C9_OrderedPrefix ==
    /\ Len(uploads) > 0 => (uploads[1].tab = 0 /\ uploads[1].chunk = 0)
    /\ \A k \in 2..Len(uploads) : FollowsInOrder(k)
    /\ LET fetches == Fetches IN
       /\ Len(fetches) =
             Len(uploads) + (IF pc = "upload" \/ (pc = "failed" /\
                                                  raised_in = "fetch")
                             THEN 1 ELSE 0)
       /\ \A k \in 1..Len(uploads) :
             LET u == uploads[k]
                 q == fetches[k]
             IN /\ u.index = indexes[u.tab + 1]
                /\ \A d \in DocsOf(u.data) : d.src = T[u.tab + 1]
                /\ q.tab = u.tab
                /\ q.kind = "select_page" =>
                      q.offset = u.chunk * max_chunk_size
                /\ (k < Len(uploads) \/ ~LastUploadRaised) => Stored(k)
    /\ pc = "failed" => ~ENABLED Next

C9_Witness ==
    /\ pc = "failed"
    /\ raised_in = "fetch"
    /\ Len(uploads) = 3
    /\ uploads[1].tab = 0
    /\ uploads[2].tab = 0
    /\ uploads[3].tab = 1
    /\ T[1] # T[2]
    /\ Stored(1) /\ Stored(2) /\ Stored(3)
    /\ counts[2] > max_chunk_size

(* C10: every page handed to upload_data_to_index has at most               *)
(* max_chunk_size rows, also when another client inserts rows between the   *)
(* count query and the fetch queries.                                       *)
C10_PageWithinChunkSize ==
    \A k \in 1..Len(uploads) : Len(uploads[k].data) <= max_chunk_size

=============================================================================
